---- MODULE Spec2Model ----
(***************************************************************************)
(* openvpn-cred-management: the credential directory scanner (get_users)   *)
(* and the packaging pipeline (package), as a state machine over the       *)
(* filesystem: the PKI directory, the output directory and the temporary   *)
(* workspaces.                                                             *)
(*                                                                         *)
(* File names, stems and usernames are strings.  A character is a string   *)
(* of length 1.  Four characters stand for things an ASCII literal cannot  *)
(* spell: "{" is the invalid byte 0xFE, "}" the invalid byte 0xFF, "?" the *)
(* replacement character U+FFFD and "!" the character U+1F600; Byte gives  *)
(* the first byte of each character's encoding.                            *)
(***************************************************************************)
EXTENDS Integers, Sequences, FiniteSets, TLC

\* ------------------------------------------------------------------ bounds
MaxReq == 2          \* longest list of requested usernames
MaxScripts == 2      \* longest list of transform scripts
MaxLines == 2        \* lines of `easyrsa show-expire` output
MaxCalls == 2        \* invocations of the program in SpecSeq

\* ------------------------------------------------------- strings and paths
Ch(s, i) == SubSeq(s, i, i)

Byte(c) ==
    CASE c = "-" -> 45  [] c = "." -> 46  [] c = "@" -> 64
      [] c = "a" -> 97  [] c = "b" -> 98  [] c = "c" -> 99
      [] c = "e" -> 101 [] c = "g" -> 103 [] c = "k" -> 107
      [] c = "p" -> 112 [] c = "r" -> 114 [] c = "t" -> 116
      [] c = "y" -> 121
      [] c = "?" -> 239 [] c = "!" -> 240
      [] c = "{" -> 254 [] c = "}" -> 255

\* Ord for OsString and String: bytewise lexicographic
RECURSIVE LexLess(_, _)
LexLess(s, t) ==
    IF Len(t) = 0 THEN FALSE
    ELSE IF Len(s) = 0 THEN TRUE
    ELSE IF Byte(Ch(s, 1)) # Byte(Ch(t, 1)) THEN Byte(Ch(s, 1)) < Byte(Ch(t, 1))
    ELSE LexLess(SubSeq(s, 2, Len(s)), SubSeq(t, 2, Len(t)))

\* iteration order of a BTreeSet
RECURSIVE Ascending(_)
Ascending(S) ==
    IF S = {} THEN <<>>
    ELSE LET m == CHOOSE x \in S : \A y \in S \ {x} : LexLess(x, y)
         IN  <<m>> \o Ascending(S \ {m})

\* Path::file_stem: the name up to its last dot; the whole name when it has
\* no dot or only a leading one; none for ".."
HasStem(name) == name # ".."

file_stem(name) ==
    LET dots == {i \in 1..Len(name) : Ch(name, i) = "."}
    IN  IF dots \subseteq {1} THEN name
        ELSE LET last == CHOOSE i \in dots : \A j \in dots : j <= i
             IN  SubSeq(name, 1, last - 1)

\* OsStr::to_string_lossy: every invalid byte becomes U+FFFD
RECURSIVE to_string_lossy(_)
to_string_lossy(s) ==
    IF Len(s) = 0 THEN ""
    ELSE (IF Ch(s, 1) \in {"{", "}"} THEN "?" ELSE Ch(s, 1))
         \o to_string_lossy(SubSeq(s, 2, Len(s)))

\* the class [\w\d\-_] of the username REGEX
WordChar(c) == c \in {"a", "b", "c", "e", "g", "k", "p", "r", "t", "y", "-"}

\* Username::from_str: VALIDATOR.is_match(s), an unanchored search
UsernameOk(s) == \E i \in 1..Len(s) : WordChar(Ch(s, i))

\* ------------------------------------------------------------- the scanner
\* a directory entry: its file name and whether it is a regular file
Entry(n, f) == [name |-> n, is_file |-> f, ok |-> TRUE]

\* an entry read_dir yields as Err; n only tells such entries apart
Unreadable(n) == [name |-> n, is_file |-> TRUE, ok |-> FALSE]

\* one unreadable entry makes the whole listing empty
list_names_abort(dir) ==
    IF \E d \in dir : ~d.ok THEN {}
    ELSE {file_stem(de.name) : de \in {d \in dir : d.is_file /\ HasStem(d.name)}}

list_names(dir) ==
    {file_stem(de.name) : de \in {d \in dir : d.ok /\ d.is_file /\ HasStem(d.name)}}

RECURSIVE FilterParse(_)
FilterParse(names) ==
    IF names = <<>> THEN <<>>
    ELSE LET s == to_string_lossy(Head(names))
         IN  (IF UsernameOk(s) THEN <<s>> ELSE <<>>) \o FilterParse(Tail(names))

\* the CA's stem is filtered out of both directories
get_users_ca(issued_dir, private_dir) ==
    LET cert_names == list_names(issued_dir) \ {"ca"}
        key_names  == list_names(private_dir) \ {"ca"}
    IN  FilterParse(Ascending(cert_names \cup key_names))

get_users(issued_dir, private_dir) ==
    LET cert_names == list_names(issued_dir)
        key_names  == list_names(private_dir) \ {"ca"}
    IN  FilterParse(Ascending(cert_names \cup key_names))

Warning(k, n) == [kind |-> k, name |-> n]

\* ---- the report of `easyrsa show-expire` ----

Digits == {"0", "1", "2", "3", "4", "5", "6", "7", "8", "9"}
HexDigits == Digits \cup {"A", "B", "C", "D", "E", "F"}
DateChars == Digits \cup {"-"}
TimeChars == Digits \cup {":", "Z", "+", "-"}

DigitVal(c) ==
    CASE c = "0" -> 0 [] c = "1" -> 1 [] c = "2" -> 2 [] c = "3" -> 3 [] c = "4" -> 4
      [] c = "5" -> 5 [] c = "6" -> 6 [] c = "7" -> 7 [] c = "8" -> 8 [] c = "9" -> 9

StartsWith(s, p) == Len(s) >= Len(p) /\ SubSeq(s, 1, Len(p)) = p
Drop(s, n) == SubSeq(s, n + 1, Len(s))

\* the length of the longest prefix of s made of characters of class
RECURSIVE Span(_, _)
Span(s, class) ==
    IF s = "" \/ Ch(s, 1) \notin class THEN 0 ELSE 1 + Span(Drop(s, 1), class)

NoMatch == [ok |-> FALSE, label |-> FALSE, date |-> "", time |-> "", name |-> ""]

\* any status marker is taken for the valid one
captures_any_status(line) ==
    LET r1 == Drop(line, 12)
        n1 == Span(r1, HexDigits)
        r2 == Drop(r1, n1)
        r3 == Drop(r2, 3)
        lb == StartsWith(r3, "Expires: ") \/ StartsWith(r3, "Expired: ")
        r4 == IF lb THEN Drop(r3, 9) ELSE r3
        n2 == Span(r4, DateChars)
        r5 == Drop(r4, n2)
        r6 == Drop(r5, 1)
        n3 == Span(r6, TimeChars)
        r7 == Drop(r6, n3)
        r8 == Drop(r7, 7)
    IN  IF /\ Len(line) >= 12 /\ SubSeq(line, 2, 12) = " | Serial: "
           /\ n1 >= 1
           /\ StartsWith(r2, " | ")
           /\ n2 >= 1
           /\ StartsWith(r5, " ")
           /\ n3 >= 1
           /\ StartsWith(r7, " | CN: ")
           /\ Len(r8) >= 1
           /\ \A i \in 1..Len(r8) : Ch(r8, i) # " "
        THEN [ok |-> TRUE, label |-> lb, date |-> SubSeq(r4, 1, n2),
              time |-> SubSeq(r6, 1, n3), name |-> r8]
        ELSE NoMatch

\* LINE_MATCHER.captures(line): the label group is optional in the expression
captures(line) ==
    LET r1 == Drop(line, 12)
        n1 == Span(r1, HexDigits)
        r2 == Drop(r1, n1)
        r3 == Drop(r2, 3)
        lb == StartsWith(r3, "Expires: ") \/ StartsWith(r3, "Expired: ")
        r4 == IF lb THEN Drop(r3, 9) ELSE r3
        n2 == Span(r4, DateChars)
        r5 == Drop(r4, n2)
        r6 == Drop(r5, 1)
        n3 == Span(r6, TimeChars)
        r7 == Drop(r6, n3)
        r8 == Drop(r7, 7)
    IN  IF /\ StartsWith(line, "V | Serial: ")
           /\ n1 >= 1
           /\ StartsWith(r2, " | ")
           /\ n2 >= 1
           /\ StartsWith(r5, " ")
           /\ n3 >= 1
           /\ StartsWith(r7, " | CN: ")
           /\ Len(r8) >= 1
           /\ \A i \in 1..Len(r8) : Ch(r8, i) # " "
        THEN [ok |-> TRUE, label |-> lb, date |-> SubSeq(r4, 1, n2),
              time |-> SubSeq(r6, 1, n3), name |-> r8]
        ELSE NoMatch

\* the number made of the two digits of s at i and i + 1, or -1
Num2(s, i) ==
    IF Ch(s, i) \in Digits /\ Ch(s, i + 1) \in Digits
    THEN 10 * DigitVal(Ch(s, i)) + DigitVal(Ch(s, i + 1)) ELSE -1

IsLeap(y) == y % 4 = 0 /\ (y % 100 # 0 \/ y % 400 = 0)

DaysInMonth(y, m) ==
    IF m = 2 THEN (IF IsLeap(y) THEN 29 ELSE 28)
    ELSE IF m \in {4, 6, 9, 11} THEN 30 ELSE 31

\* the days from 2000-01-01 to the day y-m-d of the proleptic Gregorian calendar
DaysFromCivil(y, m, d) ==
    LET yy  == IF m <= 2 THEN y - 1 ELSE y
        era == yy \div 400
        yoe == yy - era * 400
        mp  == IF m > 2 THEN m - 3 ELSE m + 9
        doy == (153 * mp + 2) \div 5 + d - 1
        doe == yoe * 365 + yoe \div 4 - yoe \div 100 + doy
    IN  era * 146097 + doe - 719468 - 10957

BadTime == [ok |-> FALSE, instant |-> 0]

\* DateTime::parse_from_rfc3339 of "{date}T{time}": the instant in seconds
\* from 2000-01-01T00:00:00Z
parse_from_rfc3339(s) ==
    IF ~(Len(s) \in {20, 25}) THEN BadTime
    ELSE
    LET y   == IF Num2(s, 1) < 0 \/ Num2(s, 3) < 0 THEN -1
               ELSE 100 * Num2(s, 1) + Num2(s, 3)
        m   == Num2(s, 6)
        d   == Num2(s, 9)
        h   == Num2(s, 12)
        mi  == Num2(s, 15)
        sec == Num2(s, 18)
        utc == Len(s) = 20 /\ Ch(s, 20) = "Z"
        oh  == IF Len(s) = 25 THEN Num2(s, 21) ELSE 0
        om  == IF Len(s) = 25 THEN Num2(s, 24) ELSE 0
        sg  == IF Len(s) = 25 /\ Ch(s, 20) = "-" THEN -1 ELSE 1
    IN  IF /\ y >= 0 /\ Ch(s, 5) = "-" /\ m \in 1..12 /\ Ch(s, 8) = "-"
           /\ d >= 1 /\ d <= DaysInMonth(y, m)
           /\ Ch(s, 11) = "T"
           /\ h \in 0..23 /\ Ch(s, 14) = ":" /\ mi \in 0..59 /\ Ch(s, 17) = ":"
           /\ sec \in 0..59
           /\ \/ utc
              \/ /\ Len(s) = 25 /\ Ch(s, 20) \in {"+", "-"}
                 /\ oh \in 0..23 /\ Ch(s, 23) = ":" /\ om \in 0..59
        THEN [ok |-> TRUE,
              instant |-> DaysFromCivil(y, m, d) * 86400 + h * 3600 + mi * 60 + sec
                          - sg * (oh * 3600 + om * 60)]
        ELSE BadTime

\* a certificate counts as expired already at the instant it expires
is_expired_at(t, expiry_) == t >= expiry_

\* (now > expiry)
is_expired(t, expiry_) == t > expiry_

\* what the closure given to filter_map returns for a line: <<name>> or <<>>
filter_map_line(line, t) ==
    LET c == captures(line)
        e == parse_from_rfc3339(c.date \o "T" \o c.time)
    IN  IF ~c.ok THEN <<>>
        ELSE IF ~UsernameOk(c.name) THEN <<>>
        ELSE IF ~e.ok THEN <<>>
        ELSE IF is_expired(t, e.instant) THEN <<c.name>> ELSE <<>>

RECURSIVE Warn(_, _)
Warn(k, names) ==
    IF names = <<>> THEN <<>> ELSE <<Warning(k, Head(names))>> \o Warn(k, Tail(names))

\* a key without a certificate is not warned about
asymmetry_warnings_cert(issued_dir, private_dir) ==
    LET cert_names == list_names(issued_dir)
        key_names  == list_names(private_dir) \ {"ca"}
    IN  Warn("certificate but no key", Ascending(cert_names \ key_names))

\* the warnings get_users logs about stems found in one directory only
asymmetry_warnings(issued_dir, private_dir) ==
    LET cert_names == list_names(issued_dir)
        key_names  == list_names(private_dir) \ {"ca"}
    IN  Warn("certificate but no key", Ascending(cert_names \ key_names))
        \o Warn("key but no certificate", Ascending(key_names \ cert_names))

Contains(seq, x) == \E i \in 1..Len(seq) : seq[i] = x

\* only the first requested username is looked up
Unknown_first(users, names) == {i \in {1} : ~Contains(users, names[i])}

\* the positions of the requested usernames that known_users does not contain
Unknown(users, names) == {i \in 1..Len(names) : ~Contains(users, names[i])}

\* the certificate is not looked for
get_cert_path_any(issued_dir, username) == TRUE

get_cert_path(issued_dir, username) == Entry(username \o ".crt", TRUE) \in issued_dir

get_key_path(private_dir, username) == Entry(username \o ".key", TRUE) \in private_dir

\* ------------------------------------------------------ the configuration
profile_name == "p"

\* the skeleton directory packaging.skel_dir: one file, a.txt = "hi"
File(p, d) == [path |-> p, data |-> d]
skel_dir == {File(<<"a.txt">>, "hi")}

\* the i-th transform script appends the i-th letter to a.txt
Letters == <<"A", "B", "C">>
ScriptLists == {SubSeq(<<1, 2, 3>>, 1, n) : n \in 0..MaxScripts}

CertSubpaths == {<<"c.pem">>, <<"creds", "c.pem">>, <<"..", "..", "mapped-skel", "c.pem">>}
KeySubpaths == {<<"k.pem">>, <<"creds", "k.pem">>}

\* profile.packaging: None, or Some(Packaging)
NoPackaging ==
    [some |-> FALSE, skel_map_scripts |-> <<>>, cert_subpath |-> <<>>, key_subpath |-> <<>>]

Packagings ==
    {NoPackaging} \cup
    [some : {TRUE}, skel_map_scripts : ScriptLists,
     cert_subpath : CertSubpaths, key_subpath : KeySubpaths]

\* the usernames a request is drawn from: a and b have a certificate and a
\* key, g ("ghost") has neither
Requestable == {"a", "b", "g"}
Requests == UNION {[1..n -> Requestable] : n \in 1..MaxReq}

\* the PKI files that may disappear while the program runs
Volatile == {"a.crt", "a.key"}

\* ------------------------------------------------------------------- state
VARIABLES
    issued, private,    \* entries of <pki_dir>/issued and <pki_dir>/private
    out_dir,            \* files of the output directory
    tmp_root,           \* the workspaces under the OS temporary root, by id
    next_id,            \* the id the next TempDir gets
    packaging,          \* profile.packaging
    pc,                 \* position of the program
    usernames, add_prefix, force, keep_temp,    \* arguments of package
    known_users,        \* result of get_users
    temp_dir,           \* id of this call's TempDir, 0 before it exists
    si, ui,             \* index of the next script, of the current user
    result,             \* what package returned
    ran,                \* the scripts run by this call, in order
    out_before,         \* the output directory when the call started
    calls,              \* number of invocations so far
    warnings,           \* the asymmetry warnings of the last scan
    show_expire_output, \* the lines `easyrsa show-expire` printed
    now,                \* Utc::now() as get_expired_users read it
    expired,            \* result of get_expired_users
    clock,              \* the system clock, Utc::now() reads it
    li,                 \* the line get_expired_users is at
    action,             \* the action given on the command line
    only_expired,       \* argument of the list action
    update_crl,         \* argument of remove_user
    tool_log,           \* the invocations of the PKI tool, in order
    post_action_scripts,    \* profile.post_action_scripts
    no_post_action_scripts, \* the command line flag
    post_ran,           \* the post-action scripts run, in order
    psi,                \* the post-action script run_for is at
    exit,               \* what main returned
    skel                \* the files of the skeleton directory packaging.skel_dir

fs == <<issued, private, out_dir, tmp_root, next_id>>
args == <<usernames, add_prefix, force, keep_temp>>
locals == <<known_users, temp_dir, si, ui, ran>>
expiry == <<show_expire_output, now, expired, clock, li>>
cli == <<action, only_expired, update_crl, no_post_action_scripts>>
post == <<post_action_scripts, post_ran, psi, exit>>
aux == <<expiry, cli, skel, tool_log, post>>
vars == <<issued, private, out_dir, tmp_root, next_id, packaging, pc, usernames,
          add_prefix, force, keep_temp, known_users, temp_dir, si, ui, result,
          ran, out_before, calls, warnings, show_expire_output, now, expired,
          clock, li,
          action, only_expired, update_crl, tool_log, post_action_scripts,
          no_post_action_scripts, post_ran, psi, exit, skel>>

\* ------------------------------------------------------ workspace contents
EmptyDir == [files |-> {}, dirs |-> {}]

Under(P, path) == Len(path) > Len(P) /\ SubSeq(path, 1, Len(P)) = P

Rest(P, path) == SubSeq(path, Len(P) + 1, Len(path))

\* how the filesystem resolves a path with ".." components
RECURSIVE Resolve(_)
Resolve(path) ==
    IF path = <<>> THEN <<>>
    ELSE LET init == Resolve(SubSeq(path, 1, Len(path) - 1))
             last == path[Len(path)]
         IN  IF last = ".." THEN SubSeq(init, 1, Len(init) - 1)
             ELSE Append(init, last)

\* a path from the root of the workspace, normalised: levels up, then names
RECURSIVE Normal(_)
Normal(path) ==
    IF path = <<>> THEN [up |-> 0, down |-> <<>>]
    ELSE LET init == Normal(SubSeq(path, 1, Len(path) - 1))
             last == path[Len(path)]
         IN  IF last # ".." THEN [init EXCEPT !.down = Append(@, last)]
             ELSE IF init.down = <<>> THEN [init EXCEPT !.up = @ + 1]
             ELSE [init EXCEPT !.down = SubSeq(@, 1, Len(@) - 1)]

\* the path leaves the workspace
Escaping(path) == Normal(path).up > 0

\* the skeleton directory lies next to the workspace, under the name "skel"
InSkel(path) ==
    /\ Normal(path).up = 1
    /\ Len(Normal(path).down) > 1
    /\ Normal(path).down[1] = "skel"

Prefixes(path) == {SubSeq(path, 1, n) : n \in 1..Len(path)}

IsFile(w, path) == \E f \in w.files : f.path = path

\* DestinationDirectoryRule::AllowEmpty
AllowEmpty(w, dst) ==
    /\ ~IsFile(w, dst)
    /\ ~\E f \in w.files : Under(dst, f.path)
    /\ ~\E d \in w.dirs : Under(dst, d)

\* copy_directory from a tree outside the workspace
CopyIn(w, tree, dst) ==
    [files |-> w.files \cup {File(dst \o f.path, f.data) : f \in tree},
     dirs  |-> w.dirs \cup {dst}]

\* copy_directory inside the workspace
CopyTree(w, src, dst) ==
    [files |-> w.files \cup
               {File(dst \o Rest(src, f.path), f.data) : f \in {g \in w.files : Under(src, g.path)}},
     dirs  |-> w.dirs \cup {dst} \cup
               {dst \o Rest(src, d) : d \in {e \in w.dirs : Under(src, e)}}]

\* fs::create_dir_all
CanCreateDirAll(w, path) ==
    Escaping(path) \/ \A q \in Prefixes(Resolve(path)) : ~IsFile(w, q)

CreateDirAll(w, path) ==
    IF Escaping(path) THEN w ELSE [w EXCEPT !.dirs = @ \cup Prefixes(Resolve(path))]

\* fs::copy onto a target inside the workspace
CanCopyTo(w, target) ==
    LET t == Resolve(target)
    IN  \/ InSkel(target)
        \/ /\ ~Escaping(target)
           /\ t \notin w.dirs
           /\ SubSeq(t, 1, Len(t) - 1) \in w.dirs \cup {<<>>}

CopyTo(w, data, target) ==
    LET t == Resolve(target)
    IN  IF Escaping(target) THEN w
        ELSE [w EXCEPT !.files = {f \in @ : f.path # t} \cup {File(t, data)}]

\* fs::copy onto a target in the skeleton directory
CopyOut(sk, data, target) ==
    LET t == SubSeq(Normal(target).down, 2, Len(Normal(target).down))
    IN  IF InSkel(target) THEN {f \in sk : f.path # t} \cup {File(t, data)} ELSE sk

\* the script appends its letter to a.txt in the working directory
RunScriptIn(w, cwd, script) ==
    [w EXCEPT !.files =
        {IF f.path = cwd \o <<"a.txt">> THEN File(f.path, f.data \o Letters[script]) ELSE f
            : f \in @}]

\* ZipWriter::create_from_directory: the files below dir, by relative path
ZipEntries(w, dir) == {File(Rest(dir, f.path), f.data) : f \in {g \in w.files : Under(dir, g.path)}}

mapped_skel_dir == <<"mapped-skel">>
pkg_parent_dir == <<"pkgs">>
pkg_dir(username) == pkg_parent_dir \o <<username>>

\* the prefix flag is ignored
archive_name_plain(username, prefix) == username \o ".zip"

archive_name(username, prefix) ==
    IF prefix THEN profile_name \o "-" \o username \o ".zip" ELSE username \o ".zip"

cert_data(username) == "CERT-" \o username
key_data(username) == "KEY-" \o username

\* a file of the output directory; by = 0 for a file no call has written
Archive(n, c, done, es) == [name |-> n, by |-> c, complete |-> done, entries |-> es]

Exists(dir, n) == \E f \in dir : f.name = n

\* -------------------------------------------------------------- the program
Ok == [ok |-> TRUE, err |-> "", who |-> ""]
Err(kind, username) == [ok |-> FALSE, err |-> kind, who |-> username]
Running == [ok |-> FALSE, err |-> "running", who |-> ""]

\* profile.post_action_scripts: None, or Some(map) from action kinds to lists
EmptyMap == [k \in {} |-> <<>>]
NoScripts == [some |-> FALSE, map |-> EmptyMap]

\* the locals before any handler has run
NoCall ==
    /\ tmp_root = <<>>
    /\ next_id = 1
    /\ pc = "idle"
    /\ usernames = <<>>
    /\ add_prefix = FALSE
    /\ force = FALSE
    /\ keep_temp = FALSE
    /\ known_users = <<>>
    /\ temp_dir = 0
    /\ si = 1
    /\ ui = 1
    /\ result = Running
    /\ ran = <<>>
    /\ out_before = out_dir
    /\ calls = 0
    /\ warnings = <<>>
    /\ now = 0
    /\ expired = <<>>
    /\ li = 1
    /\ tool_log = <<>>
    /\ post_ran = <<>>
    /\ psi = 1
    /\ exit = Running

\* what no call has touched yet
Fresh ==
    /\ NoCall
    /\ show_expire_output = <<>>
    /\ clock = 0
    /\ only_expired = FALSE
    /\ update_crl = FALSE
    /\ post_action_scripts = NoScripts
    /\ no_post_action_scripts = FALSE

\* an intact PKI directory, any packaging section, and an output directory
\* that may already hold a.zip
Init ==
    /\ issued = {Entry("a.crt", TRUE), Entry("b.crt", TRUE)}
    /\ private = {Entry("a.key", TRUE), Entry("b.key", TRUE), Entry("ca.key", TRUE)}
    /\ out_dir \in {{}, {Archive("a.zip", 0, TRUE, {})}}
    /\ skel = skel_dir
    /\ packaging \in Packagings
    /\ action = "User::Pkg"
    /\ Fresh

\* main: the operator runs `user package` with some arguments
Invoke(us, pre, f, k) ==
    /\ pc = "idle"
    /\ usernames' = us
    /\ add_prefix' = pre
    /\ force' = f
    /\ keep_temp' = k
    /\ pc' = "sanity"
    /\ calls' = calls + 1
    /\ out_before' = out_dir
    /\ result' = Running
    /\ known_users' = <<>>
    /\ temp_dir' = 0
    /\ si' = 1
    /\ ui' = 1
    /\ ran' = <<>>
    /\ UNCHANGED <<fs, packaging>>
    /\ warnings' = <<>>
    /\ UNCHANGED aux

Call == \E us \in Requests, pre \in BOOLEAN, f \in BOOLEAN, k \in BOOLEAN : Invoke(us, pre, f, k)

\* the workspace is never removed
DropTempDir_never(root, id, leaked) == root

\* Drop for TempDir: the workspace is removed unless it was leaked
DropTempDir(root, id, leaked) ==
    IF id = 0 \/ leaked THEN root
    ELSE [i \in DOMAIN root \ {id} |-> root[i]]

\* package returns: the result is set and temp_dir goes out of scope
Return(r, root) ==
    /\ result' = r
    /\ tmp_root' = DropTempDir(root, temp_dir, keep_temp)
    /\ pc' = "done"

\* the sanity checks: a packaging section, and every username known
SanityChecks ==
    /\ pc = "sanity"
    /\ LET users == get_users(issued, private)
           unknown == Unknown(users, usernames)
       IN  /\ known_users' = IF packaging.some THEN users ELSE known_users
           /\ warnings' = IF packaging.some THEN asymmetry_warnings(issued, private)
                                            ELSE warnings
           /\ IF ~packaging.some
                THEN Return(Err("no packaging section", ""), tmp_root)
              ELSE IF unknown # {}
                THEN Return(Err("unknown user",
                                usernames[CHOOSE i \in unknown : \A j \in unknown : i <= j]),
                            tmp_root)
              ELSE pc' = "mktemp" /\ UNCHANGED <<result, tmp_root>>
    /\ UNCHANGED <<issued, private, out_dir, next_id, packaging, args, temp_dir, si, ui,
                   ran, out_before, calls>>
    /\ UNCHANGED aux

\* TempDir::with_prefix, and temp_dir.leak() when keep_temp
CreateTempDir ==
    /\ pc = "mktemp"
    /\ \/ /\ temp_dir' = next_id
          /\ next_id' = next_id + 1
          /\ tmp_root' = [i \in DOMAIN tmp_root \cup {next_id} |->
                             IF i = next_id THEN EmptyDir ELSE tmp_root[i]]
          /\ pc' = "copy_skel"
          /\ UNCHANGED result
       \/ /\ Return(Err("cannot create temporary directory", ""), tmp_root)
          /\ UNCHANGED <<temp_dir, next_id>>
    /\ UNCHANGED <<issued, private, out_dir, packaging, args, known_users, si, ui, ran,
                   out_before, calls>>
    /\ UNCHANGED <<warnings, aux>>

\* copy_directory(skel_dir, mapped_skel_dir)
CopySkeleton ==
    /\ pc = "copy_skel"
    /\ \/ /\ tmp_root' = [tmp_root EXCEPT ![temp_dir] = CopyIn(@, skel, mapped_skel_dir)]
          /\ pc' = "transform"
          /\ UNCHANGED result
       \/ Return(Err("failed to copy skeleton", ""), tmp_root)
    /\ UNCHANGED <<issued, private, out_dir, next_id, packaging, args, locals,
                   out_before, calls>>
    /\ UNCHANGED <<warnings, aux>>

\* the scripts are taken from the end of the list
NextScript_rev(scripts, i) == scripts[Len(scripts) + 1 - i]

\* the script the i-th iteration of `for script in &packaging.skel_map_scripts` runs
NextScript(scripts, i) == scripts[i]

\* one iteration of the loop over packaging.skel_map_scripts
RunTransform ==
    /\ pc = "transform"
    /\ si <= Len(packaging.skel_map_scripts)
    /\ ran' = Append(ran, NextScript(packaging.skel_map_scripts, si))
    /\ \/ /\ tmp_root' = [tmp_root EXCEPT ![temp_dir] =
                             RunScriptIn(@, mapped_skel_dir,
                                         NextScript(packaging.skel_map_scripts, si))]
          /\ si' = si + 1
          /\ UNCHANGED <<pc, result>>
       \/ /\ Return(Err("transform script failed", ""), tmp_root)
          /\ UNCHANGED si
    /\ UNCHANGED <<issued, private, out_dir, next_id, packaging, args, known_users,
                   temp_dir, ui, out_before, calls>>
    /\ UNCHANGED <<warnings, aux>>

\* fs::create_dir_all(pkg_parent_dir)
CreatePkgParent ==
    /\ pc = "transform"
    /\ si > Len(packaging.skel_map_scripts)
    /\ tmp_root' = [tmp_root EXCEPT ![temp_dir] = CreateDirAll(@, pkg_parent_dir)]
    /\ pc' = "user"
    /\ UNCHANGED <<issued, private, out_dir, next_id, packaging, args, locals, result,
                   out_before, calls>>
    /\ UNCHANGED <<warnings, aux>>

\* the per-user loop: copy_directory(mapped_skel_dir, pkg_dir), or the end of
\* the loop and Ok(())
CopyForUser ==
    /\ pc = "user"
    /\ IF ui > Len(usernames)
         THEN Return(Ok, tmp_root)
       ELSE IF AllowEmpty(tmp_root[temp_dir], pkg_dir(usernames[ui]))
         THEN /\ tmp_root' = [tmp_root EXCEPT ![temp_dir] =
                                 CopyTree(@, mapped_skel_dir, pkg_dir(usernames[ui]))]
              /\ pc' = "user_mkdir"
              /\ UNCHANGED result
       ELSE Return(Err("failed to copy transformed skeleton", usernames[ui]), tmp_root)
    /\ UNCHANGED <<issued, private, out_dir, next_id, packaging, args, locals,
                   out_before, calls>>
    /\ UNCHANGED <<warnings, aux>>

\* subpath.parent() when it is not the empty path
Parents(subpath) == IF Len(subpath) > 1 THEN {SubSeq(subpath, 1, Len(subpath) - 1)} ELSE {}

\* create_dir_all for the parent of cert_subpath, then of key_subpath
CreateSubdirs ==
    /\ pc = "user_mkdir"
    /\ LET dir == pkg_dir(usernames[ui])
           w0 == tmp_root[temp_dir]
           certp == {dir \o q : q \in Parents(packaging.cert_subpath)}
           keyp == {dir \o q : q \in Parents(packaging.key_subpath)}
           ok1 == \A q \in certp : CanCreateDirAll(w0, q)
           w1 == IF ok1 /\ certp # {} THEN CreateDirAll(w0, CHOOSE q \in certp : TRUE) ELSE w0
           ok2 == \A q \in keyp : CanCreateDirAll(w1, q)
           w2 == IF ok2 /\ keyp # {} THEN CreateDirAll(w1, CHOOSE q \in keyp : TRUE) ELSE w1
       IN  IF ok1 /\ ok2
             THEN /\ tmp_root' = [tmp_root EXCEPT ![temp_dir] = w2]
                  /\ pc' = "user_cert"
                  /\ UNCHANGED result
           ELSE Return(Err("failed to create parent path", usernames[ui]),
                       [tmp_root EXCEPT ![temp_dir] = w1])
    /\ UNCHANGED <<issued, private, out_dir, next_id, packaging, args, locals,
                   out_before, calls>>
    /\ UNCHANGED <<warnings, aux>>

\* get_cert_path, then fs::copy to pkg_dir.join(cert_subpath)
CopyCertificate ==
    /\ pc = "user_cert"
    /\ LET u == usernames[ui]
           target == pkg_dir(u) \o packaging.cert_subpath
       IN  IF ~get_cert_path(issued, u)
             THEN UNCHANGED skel /\ Return(Err("cannot find a certificate", u), tmp_root)
           ELSE IF ~CanCopyTo(tmp_root[temp_dir], target)
             THEN UNCHANGED skel /\ Return(Err("failed to copy certificate", u), tmp_root)
           ELSE /\ tmp_root' = [tmp_root EXCEPT ![temp_dir] = CopyTo(@, cert_data(u), target)]
                /\ skel' = CopyOut(skel, cert_data(u), target)
                /\ pc' = "user_key"
                /\ UNCHANGED result
    /\ UNCHANGED <<issued, private, out_dir, next_id, packaging, args, locals,
                   out_before, calls>>
    /\ UNCHANGED <<warnings, expiry, cli, tool_log, post>>

\* get_key_path, then fs::copy to pkg_dir.join(key_subpath)
CopyKey ==
    /\ pc = "user_key"
    /\ LET u == usernames[ui]
           target == pkg_dir(u) \o packaging.key_subpath
       IN  IF ~get_key_path(private, u)
             THEN UNCHANGED skel /\ Return(Err("cannot find a key", u), tmp_root)
           ELSE IF ~CanCopyTo(tmp_root[temp_dir], target)
             THEN UNCHANGED skel /\ Return(Err("failed to copy key", u), tmp_root)
           ELSE /\ tmp_root' = [tmp_root EXCEPT ![temp_dir] = CopyTo(@, key_data(u), target)]
                /\ skel' = CopyOut(skel, key_data(u), target)
                /\ pc' = "archive_create"
                /\ UNCHANGED result
    /\ UNCHANGED <<issued, private, out_dir, next_id, packaging, args, locals,
                   out_before, calls>>
    /\ UNCHANGED <<warnings, expiry, cli, tool_log, post>>

\* File::create is used whatever the flag
CanCreate_always(dir, n, overwrite) == TRUE

\* File::create when force, File::create_new otherwise
CanCreate(dir, n, overwrite) == overwrite \/ ~Exists(dir, n)

\* the file is created, or truncated: it is empty until the archive is written
CreateFile(dir, n, c) == {f \in dir : f.name # n} \cup {Archive(n, c, FALSE, {})}

CreateArchive ==
    /\ pc = "archive_create"
    /\ LET u == usernames[ui]
           n == archive_name(u, add_prefix)
       IN  IF ~CanCreate(out_dir, n, force)
             THEN /\ Return(Err("failed to create output", u), tmp_root)
                  /\ UNCHANGED out_dir
           ELSE /\ out_dir' = CreateFile(out_dir, n, calls)
                /\ pc' = "archive_write"
                /\ UNCHANGED <<result, tmp_root>>
    /\ UNCHANGED <<issued, private, next_id, packaging, args, locals, out_before, calls>>
    /\ UNCHANGED <<warnings, aux>>

\* after a failed write the loop goes on with the next user
WriteArchive_goes_on ==
    /\ pc = "archive_write"
    /\ LET u == usernames[ui]
           n == archive_name(u, add_prefix)
       IN  \/ /\ out_dir' = {f \in out_dir : f.name # n} \cup
                            {Archive(n, calls, TRUE, ZipEntries(tmp_root[temp_dir], pkg_dir(u)))}
              /\ ui' = ui + 1
              /\ pc' = "user"
              /\ UNCHANGED <<result, tmp_root>>
           \/ /\ ui' = ui + 1
              /\ pc' = "user"
              /\ UNCHANGED <<out_dir, result, tmp_root>>
    /\ UNCHANGED <<issued, private, next_id, packaging, args, known_users, temp_dir, si,
                   ran, out_before, calls>>
    /\ UNCHANGED <<warnings, aux>>

\* zip_writer.create_from_directory(pkg_dir)
WriteArchive ==
    /\ pc = "archive_write"
    /\ LET u == usernames[ui]
           n == archive_name(u, add_prefix)
       IN  \/ /\ out_dir' = {f \in out_dir : f.name # n} \cup
                            {Archive(n, calls, TRUE, ZipEntries(tmp_root[temp_dir], pkg_dir(u)))}
              /\ ui' = ui + 1
              /\ pc' = "user"
              /\ UNCHANGED <<result, tmp_root>>
           \/ /\ Return(Err("failed while writing archive", u), tmp_root)
              /\ UNCHANGED <<out_dir, ui>>
    /\ UNCHANGED <<issued, private, next_id, packaging, args, known_users, temp_dir, si,
                   ran, out_before, calls>>
    /\ UNCHANGED <<warnings, aux>>

\* the PKI directory changes under the running program: a file disappears
Drift ==
    /\ pc \notin {"idle", "done"}
    /\ \E n \in Volatile :
        /\ Entry(n, TRUE) \in issued \cup private
        /\ issued' = issued \ {Entry(n, TRUE)}
        /\ private' = private \ {Entry(n, TRUE)}
    /\ UNCHANGED <<out_dir, tmp_root, next_id, packaging, pc, args, locals, result,
                   out_before, calls>>
    /\ UNCHANGED <<warnings, aux>>

\* the process has exited; the operator may run the program again
Exit ==
    /\ pc = "done"
    /\ calls < MaxCalls
    /\ pc' = "idle"
    /\ UNCHANGED <<fs, packaging, args, locals, result, out_before, calls>>
    /\ UNCHANGED <<warnings, aux>>

Step ==
    \/ SanityChecks
    \/ CreateTempDir
    \/ CopySkeleton
    \/ RunTransform
    \/ CreatePkgParent
    \/ CopyForUser
    \/ CreateSubdirs
    \/ CopyCertificate
    \/ CopyKey
    \/ CreateArchive
    \/ WriteArchive

Next == Call \/ Step \/ Drift

Spec == Init /\ [][Next]_vars

\* ---- one run with a certificate subpath that leads out of the workspace ----
\* from pkgs/<user> three levels up, then into the skeleton directory
PackagingsEscape ==
    {[some |-> TRUE, skel_map_scripts |-> scripts,
      cert_subpath |-> <<"..", "..", "..", "skel", "a.txt">>, key_subpath |-> <<"k.pem">>] :
        scripts \in ScriptLists}

InitEscape ==
    /\ issued = {Entry("a.crt", TRUE), Entry("b.crt", TRUE)}
    /\ private = {Entry("a.key", TRUE), Entry("b.key", TRUE), Entry("ca.key", TRUE)}
    /\ out_dir = {}
    /\ skel = skel_dir
    /\ packaging \in PackagingsEscape
    /\ action = "User::Pkg"
    /\ Fresh

SpecEscape == InitEscape /\ [][Next]_vars

\* ---------------------------------------------- several runs of the program
\* one packaging section with a script, or none; requests for user a, for the
\* unknown g, and for a twice
PackagingsSeq ==
    {NoPackaging,
     [some |-> TRUE, skel_map_scripts |-> <<1>>,
      cert_subpath |-> <<"c.pem">>, key_subpath |-> <<"k.pem">>]}

RequestsSeq == {<<"a">>, <<"g">>, <<"a", "a">>}

InitSeq ==
    /\ issued = {Entry("a.crt", TRUE), Entry("b.crt", TRUE)}
    /\ private = {Entry("a.key", TRUE), Entry("b.key", TRUE), Entry("ca.key", TRUE)}
    /\ out_dir = {}
    /\ skel = skel_dir
    /\ packaging \in PackagingsSeq
    /\ action = "User::Pkg"
    /\ Fresh

CallSeq == \E us \in RequestsSeq, f \in BOOLEAN, k \in BOOLEAN : Invoke(us, FALSE, f, k)

NextSeq == CallSeq \/ Step \/ Drift \/ Exit

SpecSeq == InitSeq /\ [][NextSeq]_vars

\* ------------------------------------------------------- the scanner alone
IssuedPool ==
    {Entry("a.crt", TRUE), Entry("ca.crt", TRUE), Entry("@.crt", TRUE),
     Entry("a}.crt", TRUE), Entry("a!.crt", TRUE), Entry("b.crt", FALSE),
     Unreadable("e.crt")}

PrivatePool ==
    {Entry("a.key", TRUE), Entry("ca.key", TRUE), Entry("b.key", TRUE),
     Entry("a{.key", TRUE), Entry("@.key", TRUE), Unreadable("e.key")}

InitScan ==
    /\ issued \in SUBSET IssuedPool
    /\ private \in SUBSET PrivatePool
    /\ out_dir = {}
    /\ skel = skel_dir
    /\ packaging = NoPackaging
    /\ action = "User::List"
    /\ Fresh

\* list_users: the output is what get_users returns
list_users ==
    /\ pc = "idle"
    /\ known_users' = get_users(issued, private)
    /\ warnings' = asymmetry_warnings(issued, private)
    /\ result' = Ok
    /\ pc' = "listed"
    /\ UNCHANGED <<fs, packaging, args, temp_dir, si, ui, ran, out_before, calls>>
    /\ UNCHANGED aux

NextScan == list_users

SpecScan == InitScan /\ [][NextScan]_vars

\* ---- list_expired alone, over reports of up to MaxLines lines ----
LinePool ==
    {"V | Serial: 0A | Expires: 2030-01-01 00:00:00Z | CN: a",
     "V | Serial: 0B | Expired: 2030-01-01 01:00:00+01:00 | CN: b",
     "V | Serial: 0C | 2029-12-31 23:59:59Z | CN: c",
     "R | Serial: 0D | Expires: 2029-01-01 00:00:00Z | CN: e",
     "V | Serial: 0E | Expires: 2029-01-01 00:00:00Z | CN: @",
     "V | Serial: 0F | Expires: 2029-02-29 00:00:00Z | CN: g",
     ""}

Reports == UNION {[1..n -> LinePool] : n \in 0..MaxLines}

\* the instants the clock shows: one second before, at, and after 2030-01-01
Instants ==
    {parse_from_rfc3339("2029-12-31T23:59:59Z").instant,
     parse_from_rfc3339("2030-01-01T00:00:00Z").instant,
     parse_from_rfc3339("2029-12-31T19:00:01-05:00").instant}

InitExpire ==
    /\ issued = {Entry("a.crt", TRUE), Entry("b.crt", TRUE)}
    /\ private = {Entry("a.key", TRUE), Entry("b.key", TRUE), Entry("ca.key", TRUE)}
    /\ out_dir = {}
    /\ skel = skel_dir
    /\ packaging = NoPackaging
    /\ action = "User::List"
    /\ NoCall
    /\ show_expire_output \in Reports
    /\ clock \in Instants
    /\ only_expired = TRUE
    /\ update_crl = FALSE
    /\ post_action_scripts = NoScripts
    /\ no_post_action_scripts = FALSE

\* let now = Utc::now(), read once before the lines are looked at
CaptureNow ==
    /\ pc = "idle"
    /\ now' = clock
    /\ expired' = <<>>
    /\ li' = 1
    /\ pc' = "lines"
    /\ UNCHANGED <<fs, packaging, args, locals, result, out_before, calls, warnings,
                   show_expire_output, clock, cli, skel, tool_log, post>>

\* one turn of filter_map over show_expire_output.lines()
FilterMapLine ==
    /\ pc = "lines"
    /\ li <= Len(show_expire_output)
    /\ expired' = expired \o filter_map_line(show_expire_output[li], now)
    /\ li' = li + 1
    /\ UNCHANGED <<fs, packaging, args, locals, result, out_before, calls, warnings,
                   show_expire_output, now, clock, pc, cli, skel, tool_log, post>>

\* collect() and Ok(expired); list_expired prints the names
CollectExpired ==
    /\ pc = "lines"
    /\ li > Len(show_expire_output)
    /\ result' = Ok
    /\ pc' = "listed"
    /\ UNCHANGED <<fs, packaging, args, locals, out_before, calls, warnings,
                   expiry, cli, skel, tool_log, post>>

\* time passes while the report is parsed
Tick ==
    /\ pc \in {"idle", "lines"}
    /\ \E t \in Instants : t > clock /\ clock' = t
    /\ UNCHANGED <<fs, packaging, args, locals, result, out_before, calls, warnings,
                   show_expire_output, now, expired, li, pc, cli, skel, tool_log, post>>

NextExpire == CaptureNow \/ FilterMapLine \/ CollectExpired \/ Tick

SpecExpire == InitExpire /\ [][NextExpire]_vars

\* ---- new_user and remove_user ----
\* an invocation of the PKI tool, and whether its exit status was success
Invocation(v, username, status) == [verb |-> v, username |-> username, ok |-> status]

\* only the first requested username is looked up
Known_first(users, names) == {i \in {1} : Contains(users, names[i])}

\* the positions of the requested usernames that are known already
Known(users, names) == {i \in 1..Len(names) : Contains(users, names[i])}

First(positions) == CHOOSE i \in positions : \A j \in positions : i <= j

\* the usernames new_user and remove_user are asked about
UserRequests == UNION {[1..n -> {"a", "b", "c"}] : n \in 1..MaxReq}

\* match &action: UserAction::New
CallNew ==
    /\ pc = "idle"
    /\ action = "User::New"
    /\ \E us \in UserRequests : usernames' = us
    /\ pc' = "new_sanity"
    /\ UNCHANGED <<fs, packaging, add_prefix, force, keep_temp, locals, result,
                   out_before, calls, warnings, aux>>

\* new_user: get_users and the loop that bails on a known username
NewUserSanity ==
    /\ pc = "new_sanity"
    /\ LET users == get_users(issued, private)
           known == Known(users, usernames)
       IN  /\ known_users' = users
           /\ warnings' = asymmetry_warnings(issued, private)
           /\ ui' = 1
           /\ IF known # {}
                THEN /\ result' = Err("user already exists", usernames[First(known)])
                     /\ pc' = "done"
                ELSE /\ pc' = "build"
                     /\ UNCHANGED result
    /\ UNCHANGED <<fs, packaging, args, temp_dir, si, ran, out_before, calls, aux>>

\* new_user: one turn of the loop that runs `easyrsa build-client-full`, whose
\* exit status decides; then Ok(())
BuildClientFull ==
    /\ pc = "build"
    /\ IF ui > Len(usernames)
         THEN /\ result' = Ok
              /\ pc' = "done"
              /\ UNCHANGED <<issued, private, tool_log, ui>>
       ELSE \/ /\ tool_log' = Append(tool_log,
                                     Invocation("build-client-full", usernames[ui], TRUE))
               /\ issued' = issued \cup {Entry(usernames[ui] \o ".crt", TRUE)}
               /\ private' = private \cup {Entry(usernames[ui] \o ".key", TRUE)}
               /\ ui' = ui + 1
               /\ UNCHANGED <<result, pc>>
            \/ /\ tool_log' = Append(tool_log,
                                     Invocation("build-client-full", usernames[ui], FALSE))
               /\ result' = Err("user creation command failed", usernames[ui])
               /\ pc' = "done"
               /\ UNCHANGED <<issued, private, ui>>
    /\ UNCHANGED <<out_dir, tmp_root, next_id, packaging, args, known_users, temp_dir, si,
                   ran, out_before, calls, warnings, expiry, cli, skel, post>>

\* match &action: UserAction::Remove
CallRemove ==
    /\ pc = "idle"
    /\ action = "User::Rm"
    /\ \E us \in UserRequests : usernames' = us
    /\ pc' = "rm_sanity"
    /\ UNCHANGED <<fs, packaging, add_prefix, force, keep_temp, locals, result,
                   out_before, calls, warnings, aux>>

\* remove_user: get_users and the loop that bails on an unknown username
RemoveUserSanity ==
    /\ pc = "rm_sanity"
    /\ LET users == get_users(issued, private)
           unknown == Unknown(users, usernames)
       IN  /\ known_users' = users
           /\ warnings' = asymmetry_warnings(issued, private)
           /\ ui' = 1
           /\ IF unknown # {}
                THEN /\ result' = Err("user does not exist", usernames[First(unknown)])
                     /\ pc' = "done"
                ELSE /\ pc' = "revoke"
                     /\ UNCHANGED result
    /\ UNCHANGED <<fs, packaging, args, temp_dir, si, ran, out_before, calls, aux>>

\* a failed revoke does not end the loop
Revoke_goes_on ==
    /\ pc = "revoke"
    /\ IF ui > Len(usernames)
         THEN /\ IF update_crl
                   THEN pc' = "gen_crl" /\ UNCHANGED result
                   ELSE pc' = "done" /\ result' = Ok
              /\ UNCHANGED <<issued, private, tool_log, ui>>
       ELSE \/ /\ tool_log' = Append(tool_log, Invocation("revoke", usernames[ui], TRUE))
               /\ issued' = issued \ {Entry(usernames[ui] \o ".crt", TRUE)}
               /\ private' = private \ {Entry(usernames[ui] \o ".key", TRUE)}
               /\ ui' = ui + 1
               /\ UNCHANGED <<result, pc>>
            \/ /\ tool_log' = Append(tool_log, Invocation("revoke", usernames[ui], FALSE))
               /\ ui' = ui + 1
               /\ UNCHANGED <<issued, private, result, pc>>
    /\ UNCHANGED <<out_dir, tmp_root, next_id, packaging, args, known_users, temp_dir, si,
                   ran, out_before, calls, warnings, expiry, cli, skel, post>>

\* remove_user: one turn of the loop that runs `easyrsa revoke`; after the
\* loop, regenerate_crl when update_crl, else Ok(())
Revoke ==
    /\ pc = "revoke"
    /\ IF ui > Len(usernames)
         THEN /\ IF update_crl
                   THEN pc' = "gen_crl" /\ UNCHANGED result
                   ELSE pc' = "done" /\ result' = Ok
              /\ UNCHANGED <<issued, private, tool_log, ui>>
       ELSE \/ /\ tool_log' = Append(tool_log, Invocation("revoke", usernames[ui], TRUE))
               /\ issued' = issued \ {Entry(usernames[ui] \o ".crt", TRUE)}
               /\ private' = private \ {Entry(usernames[ui] \o ".key", TRUE)}
               /\ ui' = ui + 1
               /\ UNCHANGED <<result, pc>>
            \/ /\ tool_log' = Append(tool_log, Invocation("revoke", usernames[ui], FALSE))
               /\ result' = Err("user deletion command failed", usernames[ui])
               /\ pc' = "done"
               /\ UNCHANGED <<issued, private, ui>>
    /\ UNCHANGED <<out_dir, tmp_root, next_id, packaging, args, known_users, temp_dir, si,
                   ran, out_before, calls, warnings, expiry, cli, skel, post>>

\* `easyrsa gen-crl`, whose exit status decides
regenerate_crl ==
    /\ pc = "gen_crl"
    /\ \/ /\ tool_log' = Append(tool_log, Invocation("gen-crl", "", TRUE))
          /\ result' = Ok
       \/ /\ tool_log' = Append(tool_log, Invocation("gen-crl", "", FALSE))
          /\ result' = Err("CRL regenerate command failed", "")
    /\ pc' = "done"
    /\ UNCHANGED <<fs, packaging, args, locals, out_before, calls, warnings,
                   expiry, cli, skel, post>>

\* ---- main ----
Actions ==
    {"Gen::Completion", "Gen::Config", "Profile::List", "User::List", "User::Info",
     "User::New", "User::Rm", "User::Pkg"}

\* every user action counts as a listing
try_from_list(a) ==
    IF a \in {"Gen::Completion", "Gen::Config", "Profile::List"}
    THEN [ok |-> FALSE, kind |-> ""] ELSE [ok |-> TRUE, kind |-> "user-list"]

\* ScriptableActionKind::try_from(&Action), kinds by their kebab-case names
try_from(a) ==
    CASE a \in {"Gen::Completion", "Gen::Config", "Profile::List"}
                            -> [ok |-> FALSE, kind |-> ""]
      [] a = "User::List"   -> [ok |-> TRUE, kind |-> "user-list"]
      [] a = "User::Info"   -> [ok |-> TRUE, kind |-> "user-info"]
      [] a = "User::New"    -> [ok |-> TRUE, kind |-> "user-new"]
      [] a = "User::Rm"     -> [ok |-> TRUE, kind |-> "user-rm"]
      [] a = "User::Pkg"    -> [ok |-> TRUE, kind |-> "user-pkg"]

ScriptableActionKind == {"user-list", "user-info", "user-new", "user-rm", "user-pkg"}

\* the command of a post-action script
Script(k, n) == [kind |-> k, no |-> n]

\* a script that was run, and whether its exit status was success
Ran(script, status) == [script |-> script, ok |-> status]

\* CustomScriptsMap::default() has every kind with an empty list
DefaultMap == [k \in ScriptableActionKind |-> <<>>]

\* the values of profile.post_action_scripts: none, the default map, maps with
\* 1..MaxScripts scripts for every kind, a map whose lists are not in the order
\* of the script numbers, and a map with an entry for one kind only
PostScripts ==
    {NoScripts, [some |-> TRUE, map |-> DefaultMap]}
    \cup {[some |-> TRUE, map |-> [k \in ScriptableActionKind |-> [i \in 1..n |-> Script(k, i)]]] :
            n \in 1..MaxScripts}
    \cup {[some |-> TRUE, map |-> [k \in ScriptableActionKind |-> <<Script(k, 2), Script(k, 1)>>]],
          [some |-> TRUE, map |-> [k \in {"user-list"} |-> <<Script(k, 1)>>]]}

\* CustomScriptsMap::run_for: the list to run, empty when the key is not found
\* or the entry is empty
run_for(map, kind) ==
    IF kind \in DOMAIN map /\ map[kind] # <<>> THEN map[kind] ELSE <<>>

InitMain ==
    /\ issued = {Entry("a.crt", TRUE), Entry("b.crt", TRUE)}
    /\ private = {Entry("a.key", TRUE), Entry("b.key", TRUE), Entry("ca.key", TRUE)}
    /\ out_dir = {}
    /\ skel = skel_dir
    /\ action \in Actions
    /\ packaging \in IF action = "User::Pkg" THEN PackagingsSeq ELSE {NoPackaging}
    /\ NoCall
    /\ only_expired \in IF action = "User::List" THEN BOOLEAN ELSE {FALSE}
    /\ show_expire_output =
          IF only_expired
          THEN <<"V | Serial: 0C | Expires: 2029-12-31 23:59:59Z | CN: c">> ELSE <<>>
    /\ clock = parse_from_rfc3339("2030-01-01T00:00:00Z").instant
    /\ update_crl \in IF action = "User::Rm" THEN BOOLEAN ELSE {FALSE}
    /\ post_action_scripts \in PostScripts
    /\ no_post_action_scripts \in BOOLEAN

\* completion generation and config init return from main on their own
GenReturn ==
    /\ pc = "idle"
    /\ action \in {"Gen::Completion", "Gen::Config"}
    /\ \/ exit' = Ok
       \/ exit' = Err("gen action failed", "")
    /\ pc' = "exit"
    /\ UNCHANGED <<fs, packaging, args, locals, result, out_before, calls, warnings,
                   expiry, cli, skel, tool_log, post_action_scripts, post_ran, psi>>

\* Config::load_from or get_profile_or_default fails
ConfigError ==
    /\ pc = "idle"
    /\ action \notin {"Gen::Completion", "Gen::Config"}
    /\ exit' = Err("cannot load config", "")
    /\ pc' = "exit"
    /\ UNCHANGED <<fs, packaging, args, locals, result, out_before, calls, warnings,
                   expiry, cli, skel, tool_log, post_action_scripts, post_ran, psi>>

\* list_profiles prints and returns ()
list_profiles ==
    /\ pc = "idle"
    /\ action = "Profile::List"
    /\ result' = Ok
    /\ pc' = "done"
    /\ UNCHANGED <<fs, packaging, args, locals, out_before, calls, warnings, aux>>

\* info_user(config_dir, &config, profile, usernames)?
info_user ==
    /\ pc = "idle"
    /\ action = "User::Info"
    /\ \E us \in UserRequests : usernames' = us
    /\ \/ result' = Ok
       \/ result' = Err("failed while querying users", "")
    /\ pc' = "done"
    /\ UNCHANGED <<fs, packaging, add_prefix, force, keep_temp, locals, out_before,
                   calls, warnings, aux>>

\* match &action: UserAction::List, by only_expired
CallList ==
    /\ action = "User::List"
    /\ IF only_expired THEN CaptureNow ELSE list_users

\* match &action: UserAction::Package
CallPackage ==
    /\ action = "User::Pkg"
    /\ CallSeq

\* the scripts are looked up whether or not the handler returned an error
PostAction_after_error ==
    /\ pc \in {"done", "listed"}
    /\ IF no_post_action_scripts
         THEN exit' = Ok /\ pc' = "exit"
       ELSE IF ~try_from(action).ok
         THEN exit' = Ok /\ pc' = "exit"
       ELSE IF ~post_action_scripts.some
         THEN exit' = Ok /\ pc' = "exit"
       ELSE IF run_for(post_action_scripts.map, try_from(action).kind) = <<>>
         THEN exit' = Ok /\ pc' = "exit"
       ELSE pc' = "post" /\ UNCHANGED exit
    /\ psi' = 1
    /\ UNCHANGED <<fs, packaging, args, locals, result, out_before, calls, warnings,
                   expiry, cli, skel, tool_log, post_action_scripts, post_ran>>

\* the handler has returned: `?` passes its error on; otherwise
\* run_post_action_scripts unless no_post_action_scripts, and there the scripts
\* of the action's kind are looked up
PostAction ==
    /\ pc \in {"done", "listed"}
    /\ IF ~result.ok
         THEN exit' = result /\ pc' = "exit"
       ELSE IF no_post_action_scripts
         THEN exit' = Ok /\ pc' = "exit"
       ELSE IF ~try_from(action).ok
         THEN exit' = Ok /\ pc' = "exit"
       ELSE IF ~post_action_scripts.some
         THEN exit' = Ok /\ pc' = "exit"
       ELSE IF run_for(post_action_scripts.map, try_from(action).kind) = <<>>
         THEN exit' = Ok /\ pc' = "exit"
       ELSE pc' = "post" /\ UNCHANGED exit
    /\ psi' = 1
    /\ UNCHANGED <<fs, packaging, args, locals, result, out_before, calls, warnings,
                   expiry, cli, skel, tool_log, post_action_scripts, post_ran>>

\* a failed script does not end the loop
RunPostScript_goes_on ==
    /\ pc = "post"
    /\ LET scripts == run_for(post_action_scripts.map, try_from(action).kind)
       IN  IF psi > Len(scripts)
             THEN /\ exit' = Ok
                  /\ pc' = "exit"
                  /\ UNCHANGED <<post_ran, psi>>
           ELSE /\ \E status \in BOOLEAN : post_ran' = Append(post_ran, Ran(scripts[psi], status))
                /\ psi' = psi + 1
                /\ UNCHANGED <<exit, pc>>
    /\ UNCHANGED <<fs, packaging, args, locals, result, out_before, calls, warnings,
                   expiry, cli, skel, tool_log, post_action_scripts>>

\* run_for: one turn of the loop that runs `bash -c {script}`, whose exit
\* status decides; then Ok(())
RunPostScript ==
    /\ pc = "post"
    /\ LET scripts == run_for(post_action_scripts.map, try_from(action).kind)
       IN  IF psi > Len(scripts)
             THEN /\ exit' = Ok
                  /\ pc' = "exit"
                  /\ UNCHANGED <<post_ran, psi>>
           ELSE \/ /\ post_ran' = Append(post_ran, Ran(scripts[psi], TRUE))
                   /\ psi' = psi + 1
                   /\ UNCHANGED <<exit, pc>>
                \/ /\ post_ran' = Append(post_ran, Ran(scripts[psi], FALSE))
                   /\ exit' = Err("a custom script failed to execute", "")
                   /\ pc' = "exit"
                   /\ UNCHANGED psi
    /\ UNCHANGED <<fs, packaging, args, locals, result, out_before, calls, warnings,
                   expiry, cli, skel, tool_log, post_action_scripts>>

NextMain ==
    \/ GenReturn
    \/ ConfigError
    \/ list_profiles
    \/ CallList
    \/ FilterMapLine
    \/ CollectExpired
    \/ info_user
    \/ CallNew
    \/ NewUserSanity
    \/ BuildClientFull
    \/ CallRemove
    \/ RemoveUserSanity
    \/ Revoke
    \/ regenerate_crl
    \/ CallPackage
    \/ Step
    \/ PostAction
    \/ RunPostScript

SpecMain == InitMain /\ [][NextMain]_vars

\* ------------------------------------------------------------------ claims
Returned == pc = "done"

\* the files of the output directory this call created or truncated
Written == {f \in out_dir : f.by # 0 /\ f.by = calls}

\* the archive name the specification gives for a user
NameFor(username) ==
    IF add_prefix THEN "p-" \o username \o ".zip" ELSE username \o ".zip"

\* C1: when package returns an error, whatever the step that failed, no
\* file of the output directory has been created or modified by the call.
C1_AllOrNothing == (Returned /\ ~result.ok) => out_dir = out_before

\* C2: if a requested username is not in the known-user set, package rejects
\* the batch before it creates the workspace and before it writes anything:
\* the call has returned an error, no workspace exists and the output
\* directory is as it was, also for the requested users that are known.
C2_UnknownRejected ==
    (/\ pc \notin {"idle", "sanity"}
     /\ packaging.some
     /\ \E i \in 1..Len(usernames) :
            usernames[i] = "g" \/ usernames[i] \notin {known_users[j] : j \in 1..Len(known_users)})
    => /\ Returned
       /\ result.err = "unknown user"
       /\ temp_dir = 0
       /\ DOMAIN tmp_root = {}
       /\ out_dir = out_before

C2_Witness ==
    /\ Returned
    /\ usernames = <<"a", "g">>
    /\ known_users = <<"a", "b">>
    /\ result = Err("unknown user", "g")
    /\ out_dir = {}

\* the stems of the regular files of a directory
Stems(dir) == {file_stem(de.name) : de \in {d \in dir : d.ok /\ d.is_file}}

Members == Stems(issued) \cup (Stems(private) \ {"ca"})

Listed == {known_users[i] : i \in 1..Len(known_users)}

ValidUtf8(s) == \A i \in 1..Len(s) : Ch(s, i) \notin {"{", "}"}

StrictlyAscending(seq) == \A i \in 1..Len(seq) - 1 : LexLess(seq[i], seq[i + 1])

\* C3 as stated: get_users returns exactly the stems of issued/ united with
\* the stems of private/ minus "ca", each once, in ascending order.
C3_ExactlyTheStems ==
    pc = "listed" =>
        /\ Listed = Members
        /\ Len(known_users) = Cardinality(Members)
        /\ StrictlyAscending(known_users)

\* C3 as amended: get_users returns one entry for each stem of issued/ united
\* with private/ minus "ca" whose lossily decoded text passes Username parsing,
\* namely that text, and drops the other stems; when all the stems are valid
\* UTF-8 the result is exactly the set of the stems that parse, each once, in
\* ascending lexicographic order.  "ca" is removed from the private side only.
C3_StemsThatParse ==
    pc = "listed" =>
        /\ Listed = {to_string_lossy(s) : s \in {m \in Members : UsernameOk(to_string_lossy(m))}}
        /\ Len(known_users) = Cardinality({m \in Members : UsernameOk(to_string_lossy(m))})
        /\ (\A m \in Members : ValidUtf8(m)) =>
              /\ Listed = {m \in Members : UsernameOk(m)}
              /\ StrictlyAscending(known_users)
        /\ Entry("ca.crt", TRUE) \in issued => "ca" \in Listed
        /\ Entry("ca.crt", TRUE) \notin issued => "ca" \notin Listed

C3_Witness ==
    /\ pc = "listed"
    /\ issued = {Entry("a.crt", TRUE), Entry("ca.crt", TRUE), Entry("@.crt", TRUE)}
    /\ private = {Entry("b.key", TRUE), Entry("ca.key", TRUE)}
    /\ known_users = <<"a", "b", "ca">>

\* this call's workspace, when it is on disk
Workspace == IF temp_dir \in DOMAIN tmp_root THEN tmp_root[temp_dir] ELSE EmptyDir

Requested == {usernames[i] : i \in 1..Len(usernames)}

CredentialsOf(username) == {"CERT-" \o username, "KEY-" \o username}

\* C4: the per-user directory and the archive of user u never hold a file
\* copied from the certificate or the key of another requested user.
C4_Isolation ==
    \A u \in Requested : \A v \in Requested \ {u} :
        /\ \A f \in Workspace.files :
               Under(<<"pkgs", u>>, f.path) => f.data \notin CredentialsOf(v)
        /\ \A z \in Written :
               z.name = NameFor(u) => \A e \in z.entries : e.data \notin CredentialsOf(v)

\* C5: without the overwrite flag a file that was in the output directory
\* when the call started is never changed, and package fails with the create
\* error for the user whose archive exists; a file is replaced only under the
\* overwrite flag, and then only by the archive of a requested user.
C5_NoSilentOverwrite ==
    /\ ~force => out_before \subseteq out_dir
    /\ \A f \in out_before \ out_dir :
           force /\ \E u \in Requested : f.name = NameFor(u)
    /\ (~force /\ pc = "archive_write") =>
           ~\E f \in out_before : f.name = NameFor(usernames[ui])
    /\ (~force /\ Returned /\ result.ok) =>
           ~\E f \in out_before : \E u \in Requested : f.name = NameFor(u)
    /\ result.err = "failed to create output" =>
           /\ Returned
           /\ ~force
           /\ result.who = usernames[ui]
           /\ \E f \in out_dir : f.name = NameFor(result.who) /\ f.by # calls

C5_Witness ==
    /\ Returned
    /\ ~force
    /\ result = Err("failed to create output", "a")
    /\ usernames = <<"b", "a">>
    /\ Archive("a.zip", 0, TRUE, {}) \in out_dir

\* C6: when the certificate (the key) of the user being packaged is not a
\* regular file, the step that copies it returns at once the error that names
\* the certificate (the key) and the user; after such an error every archive
\* the call has created belongs to a position of the request before the
\* failing one, so none was created for that user or for a later user (a
\* username repeated in the request keeps the archive of its earlier
\* position).
C6_DriftAborts ==
    /\ [][(/\ pc = "user_cert"
           /\ pc' # "user_cert"
           /\ Entry(usernames[ui] \o ".crt", TRUE) \notin issued)
          => /\ pc' = "done"
             /\ result' = Err("cannot find a certificate", usernames[ui])
             /\ out_dir' = out_dir]_vars
    /\ [][(/\ pc = "user_key"
           /\ pc' # "user_key"
           /\ Entry(usernames[ui] \o ".key", TRUE) \notin private)
          => /\ pc' = "done"
             /\ result' = Err("cannot find a key", usernames[ui])
             /\ out_dir' = out_dir]_vars
    /\ [](result.err \in {"cannot find a certificate", "cannot find a key"} =>
             /\ Returned
             /\ result.who = usernames[ui]
             /\ \A f \in Written : \E k \in 1..ui - 1 : f.name = NameFor(usernames[k])
             /\ \A j \in ui..Len(usernames) :
                    (\A k \in 1..ui - 1 : usernames[k] # usernames[j]) =>
                        ~\E f \in Written : f.name = NameFor(usernames[j]))

C6_Witness ==
    /\ Returned
    /\ usernames = <<"b", "a">>
    /\ "a" \in Listed
    /\ result = Err("cannot find a key", "a")
    /\ {f.name : f \in Written} = {NameFor("b")}

\* what the scripts of a list append, in the order of the list
RECURSIVE Appended(_)
Appended(scripts) ==
    IF scripts = <<>> THEN "" ELSE Letters[Head(scripts)] \o Appended(Tail(scripts))

InPkgs(path) == Len(path) >= 1 /\ path[1] = "pkgs"

\* C7: the scripts run in the declared order, each on the result of the
\* previous one; the first script that fails makes package return at once:
\* no later script has run, no per-user directory exists and nothing was
\* written; per-user directories and archives appear only after every script
\* has run.
C7_ScriptsInOrder ==
    /\ ran = SubSeq(packaging.skel_map_scripts, 1, Len(ran))
    /\ \A f \in Workspace.files :
           f.path = <<"mapped-skel", "a.txt">> =>
               f.data = "hi" \o Appended(SubSeq(packaging.skel_map_scripts, 1, si - 1))
    /\ result.err = "transform script failed" =>
           /\ Returned
           /\ Len(ran) = si
           /\ ~\E d \in Workspace.dirs : InPkgs(d)
           /\ ~\E f \in Workspace.files : InPkgs(f.path)
           /\ out_dir = out_before
    /\ ((\E d \in Workspace.dirs : InPkgs(d)) \/ Written # {}) =>
           /\ ran = packaging.skel_map_scripts
           /\ result.err # "transform script failed"

C7_Witness ==
    /\ Returned
    /\ result.ok
    /\ packaging.skel_map_scripts = <<1, 2>>
    /\ \E z \in Written : z.complete /\ File(<<"a.txt">>, "hiAB") \in z.entries

\* C8: when package has returned, the workspace it created is gone unless
\* keep_temp is set, and is still there when keep_temp is set; a call's
\* workspace is a new, empty directory that did not exist before, and no
\* step of a call changes the workspace another call has left.
C8_WorkspaceLifetime ==
    /\ []((Returned /\ temp_dir # 0) => (temp_dir \in DOMAIN tmp_root <=> keep_temp))
    /\ []((pc \notin {"idle", "done"} /\ temp_dir # 0) => temp_dir \in DOMAIN tmp_root)
    /\ [][(temp_dir' # temp_dir /\ temp_dir' # 0) =>
             /\ temp_dir = 0
             /\ temp_dir' \notin DOMAIN tmp_root
             /\ temp_dir' >= next_id
             /\ next_id' > temp_dir'
             /\ tmp_root'[temp_dir'] = EmptyDir]_vars
    /\ [][\A id \in DOMAIN tmp_root \ {temp_dir} :
             id \in DOMAIN tmp_root' /\ tmp_root'[id] = tmp_root[id]]_vars

C8_Witness ==
    /\ Returned
    /\ calls = 2
    /\ ~keep_temp
    /\ temp_dir = 2
    /\ DOMAIN tmp_root = {1}

\* C9: after a successful call the archive of each requested user holds
\* exactly the files of the transformed skeleton, the user's certificate at
\* cert_subpath and the user's key at key_subpath.
C9_ArchiveExact ==
    (Returned /\ result.ok) =>
        \A u \in Requested :
            \E z \in out_dir :
                /\ z.name = NameFor(u)
                /\ z.entries =
                       {File(<<"a.txt">>, "hi" \o Appended(packaging.skel_map_scripts)),
                        File(packaging.cert_subpath, "CERT-" \o u),
                        File(packaging.key_subpath, "KEY-" \o u)}

\* C10: after a successful call the files the call created in the output
\* directory are exactly one complete archive per requested user, named
\* <user>.zip, or <profile>-<user>.zip under the prefix flag; every other file
\* of the directory was there before.
C10_OneArchivePerUser ==
    (Returned /\ result.ok) =>
        /\ {f.name : f \in Written} = {NameFor(u) : u \in Requested}
        /\ \A f \in Written : f.complete
        /\ \A f \in out_dir \ Written : f \in out_before
        /\ \A f \in out_dir : \A g \in out_dir : f.name = g.name => f = g

C10_Witness ==
    /\ Returned
    /\ result.ok
    /\ add_prefix
    /\ usernames = <<"a", "b">>
    /\ {f.name : f \in out_dir} = {"a.zip", "p-a.zip", "p-b.zip"}

\* ---- the expiry report ----
\* the lines get_expired_users has looked at
Seen == IF pc \in {"lines", "listed"} THEN 1..(li - 1) ELSE {}

\* the record of line i: its name and instant, when the line gives one
RecordOf(i) ==
    LET c == captures(show_expire_output[i])
        e == parse_from_rfc3339(c.date \o "T" \o c.time)
    IN  [ok |-> c.ok /\ UsernameOk(c.name) /\ e.ok, name |-> c.name, instant |-> e.instant]

\* C11: a certificate is listed as expired iff its instant is strictly earlier
\* than the evaluation instant, which is read once and stays the same for every
\* line while the clock goes on; an instant equal to it is not expired, and two
\* lines with the same instant are classified the same
C11_StrictCutoff ==
    /\ [](\A i \in Seen : RecordOf(i).ok =>
            (Contains(expired, RecordOf(i).name) <=> RecordOf(i).instant < now))
    /\ [](\A i, j \in Seen :
            RecordOf(i).ok /\ RecordOf(j).ok /\ RecordOf(i).instant = RecordOf(j).instant
            => (Contains(expired, RecordOf(i).name) <=> Contains(expired, RecordOf(j).name)))
    /\ [][pc = "lines" => now' = now]_vars

\* the report is parsed while the clock moves on: a certificate expiring at the
\* evaluation instant is left out, one expiring a second earlier is listed
C11_Witness ==
    /\ pc = "listed"
    /\ clock > now
    /\ \E i, j \in Seen :
        /\ RecordOf(i).ok /\ RecordOf(i).instant = now
        /\ ~Contains(expired, RecordOf(i).name)
        /\ RecordOf(j).ok /\ RecordOf(j).instant < now
        /\ Contains(expired, RecordOf(j).name)

\* the part of s after the first occurrence of p, "" when there is none
RECURSIVE After(_, _)
After(s, p) ==
    IF Len(s) < Len(p) THEN ""
    ELSE IF StartsWith(s, p) THEN Drop(s, Len(p))
    ELSE After(Drop(s, 1), p)

Occurs(s, p) == \E k \in 0..Len(s) : StartsWith(Drop(s, k), p)

HasLabel(line) == Occurs(line, " | Expires: ") \/ Occurs(line, " | Expired: ")

\* the fields of the grammar, the label apart: a valid status marker, a serial,
\* a date and time, a name
FourFields(line) ==
    /\ StartsWith(line, "V | Serial: ")
    /\ After(After(line, " | Serial: "), " | ") # ""
    /\ After(line, " | CN: ") # ""

C13_OnlyWordChars ==
    pc = "listed" =>
        \A i \in 1..Len(known_users) :
            \A j \in 1..Len(known_users[i]) : WordChar(Ch(known_users[i], j))

\* ---- duplicate requests ----
HasDuplicate(names) == \E i, j \in 1..Len(names) : i < j /\ names[i] = names[j]

\* C14: a request that names a user twice is rejected as a validation error
\* before anything is changed: no workspace is made, the output directory stays
\* as it was, and the call returns an error
C14_DuplicatesRejected ==
    HasDuplicate(usernames) =>
        /\ pc \in {"idle", "sanity", "done"}
        /\ out_dir = out_before
        /\ tmp_root = <<>>
        /\ Returned => result # Ok

\* ---- post-action scripts ----
\* the kind of each user action
KindOf ==
    [a \in Actions |->
        CASE a = "User::List" -> "user-list" [] a = "User::Info" -> "user-info"
          [] a = "User::New" -> "user-new" [] a = "User::Rm" -> "user-rm"
          [] a = "User::Pkg" -> "user-pkg" [] OTHER -> "none"]

\* the list configured for the action that was run
Configured ==
    IF post_action_scripts.some /\ KindOf[action] \in DOMAIN post_action_scripts.map
    THEN post_action_scripts.map[KindOf[action]] ELSE <<>>

\* C15: the post-action scripts run in the configured order, each at most
\* once; the first one that fails ends the run, no later script runs, and main
\* exits with that error; when main exits with success after scripts ran, all
\* of them ran
C15_PostScriptsInOrder ==
    /\ Len(post_ran) <= Len(Configured)
    /\ \A i \in 1..Len(post_ran) : post_ran[i].script = Configured[i]
    /\ \A i \in 1..(Len(post_ran) - 1) : post_ran[i].ok
    /\ (post_ran # <<>> /\ ~post_ran[Len(post_ran)].ok) =>
            pc = "exit" /\ exit = Err("a custom script failed to execute", "")
    /\ (pc = "exit" /\ exit.ok /\ post_ran # <<>>) => Len(post_ran) = Len(Configured)

\* the first of two scripts, configured out of numeric order, has failed
C15_Witness ==
    /\ pc = "exit"
    /\ ~exit.ok
    /\ Configured = <<Script(KindOf[action], 2), Script(KindOf[action], 1)>>
    /\ post_ran = <<Ran(Script(KindOf[action], 2), FALSE)>>

\* C16: when the action is not scriptable, or the profile has no script map, or
\* the map has no entry for the kind, or the entry is empty, no script runs
\* and a successful action exits with success; the user actions map to five
\* kinds, one each, and every script run is one of the action's kind
C16_RunnerNoOp ==
    /\ (result.ok /\ pc = "exit" /\
            (\/ KindOf[action] = "none"
             \/ ~post_action_scripts.some
             \/ KindOf[action] \notin DOMAIN post_action_scripts.map
             \/ post_action_scripts.map[KindOf[action]] = <<>>))
        => post_ran = <<>> /\ exit = Ok
    /\ \A i \in 1..Len(post_ran) : post_ran[i].script.kind = KindOf[action]
    /\ try_from(action).ok <=> KindOf[action] # "none"
    /\ try_from(action).ok => try_from(action).kind = KindOf[action]

\* a new user was made, the map has scripts for listings only: nothing runs
C16_Witness ==
    /\ pc = "exit"
    /\ action = "User::New"
    /\ result = Ok
    /\ ~no_post_action_scripts
    /\ post_action_scripts.some
    /\ DOMAIN post_action_scripts.map = {"user-list"}
    /\ post_ran = <<>>
    /\ exit = Ok

\* ---- the sanity checks of new_user and remove_user ----
\* C20: when a requested username is known already, new_user runs
\* build-client-full for no user; when a requested username is unknown,
\* remove_user runs neither revoke nor gen-crl; both return an error and leave
\* the PKI as it was
C20_SanityBeforeTool ==
    /\ (action = "User::New" /\ pc \notin {"idle", "new_sanity"}
            /\ \E i \in 1..Len(usernames) : Contains(known_users, usernames[i]))
        => /\ tool_log = <<>>
           /\ ~result.ok /\ result.err = "user already exists"
           /\ issued = {Entry("a.crt", TRUE), Entry("b.crt", TRUE)}
    /\ (action = "User::Rm" /\ pc \notin {"idle", "rm_sanity"}
            /\ \E i \in 1..Len(usernames) : ~Contains(known_users, usernames[i]))
        => /\ tool_log = <<>>
           /\ ~result.ok /\ result.err = "user does not exist"
           /\ issued = {Entry("a.crt", TRUE), Entry("b.crt", TRUE)}

\* a request for a new user and, after it, a known one: the tool never ran
C20_Witness ==
    /\ action = "User::New"
    /\ pc = "exit"
    /\ Len(usernames) > 1
    /\ ~Contains(known_users, usernames[1])
    /\ Contains(known_users, usernames[Len(usernames)])
    /\ tool_log = <<>>

\* ---- asymmetries and bad entries ----
\* how many warnings of a kind the scan gave about a stem
Warned(k, stem) == Cardinality({i \in 1..Len(warnings) : warnings[i] = Warning(k, stem)})

AllStems == Stems(issued) \cup Stems(private)

\* C17 as stated: a stem in issued/ only, or in private/ only and not "ca", is
\* in the output and has exactly one warning, of its kind; a stem in both has
\* no warning; the scan succeeds
C17_AsymmetryWarned ==
    pc = "listed" =>
        /\ result = Ok
        /\ \A m \in AllStems :
            /\ (m \in Stems(issued) /\ m \notin Stems(private)) =>
                    /\ to_string_lossy(m) \in Listed
                    /\ Warned("certificate but no key", m) = 1
                    /\ Warned("key but no certificate", m) = 0
            /\ (m \notin Stems(issued) /\ m \in Stems(private) /\ m # "ca") =>
                    /\ to_string_lossy(m) \in Listed
                    /\ Warned("key but no certificate", m) = 1
                    /\ Warned("certificate but no key", m) = 0
            /\ (m \in Stems(issued) /\ m \in Stems(private)) =>
                    /\ Warned("certificate but no key", m) = 0
                    /\ Warned("key but no certificate", m) = 0

\* C17: the warnings compare the stems of issued/ with the stems of private/
\* without "ca": a stem on one side only has exactly one warning, of its kind,
\* so "ca" in issued/ is warned about as a certificate without a key even when
\* private/ has ca.key; a stem on both sides has none; the stem is in the
\* output when its decoded text parses as a username, warned about or not; the
\* scan succeeds
C17_AsymmetryOfKeySet ==
    pc = "listed" =>
        /\ result = Ok
        /\ \A m \in AllStems :
            LET cert == m \in Stems(issued)
                key  == m \in Stems(private) \ {"ca"}
            IN  /\ Warned("certificate but no key", m) = IF cert /\ ~key THEN 1 ELSE 0
                /\ Warned("key but no certificate", m) = IF key /\ ~cert THEN 1 ELSE 0
                /\ (cert \/ key) /\ UsernameOk(to_string_lossy(m))
                        => to_string_lossy(m) \in Listed
        /\ Len(warnings) =
              Cardinality((Stems(issued) \ (Stems(private) \ {"ca"}))
                          \cup ((Stems(private) \ {"ca"}) \ Stems(issued)))

\* a in issued/ only, b in private/ only, ca in both, "@" in issued/ only and
\* not in the output
C17_Witness ==
    /\ pc = "listed"
    /\ issued = {Entry("a.crt", TRUE), Entry("ca.crt", TRUE), Entry("@.crt", TRUE)}
    /\ private = {Entry("b.key", TRUE), Entry("ca.key", TRUE)}
    /\ known_users = <<"a", "b", "ca">>
    /\ warnings = <<Warning("certificate but no key", "@"),
                    Warning("certificate but no key", "a"),
                    Warning("certificate but no key", "ca"),
                    Warning("key but no certificate", "b")>>

\* C18: an entry that cannot be read, is not a regular file, or whose stem
\* fails username parsing is skipped and the scan still succeeds: the stem of
\* every regular file that could be read and parses is in the output (the CA's
\* key apart)
C18_GracefulScan ==
    pc = "listed" =>
        /\ result = Ok
        /\ \A d \in issued \cup private :
            (/\ d.ok /\ d.is_file
             /\ UsernameOk(to_string_lossy(file_stem(d.name)))
             /\ (d \in issued \/ file_stem(d.name) # "ca"))
            => to_string_lossy(file_stem(d.name)) \in Listed

\* all three kinds of bad entry next to a good one
C18_Witness ==
    /\ pc = "listed"
    /\ {Unreadable("e.crt"), Entry("b.crt", FALSE), Entry("@.crt", TRUE),
        Entry("a.crt", TRUE)} \subseteq issued
    /\ Unreadable("e.key") \in private
    /\ "a" \in Listed

\* ---- the order of the archives ----
\* the archive this call wrote for the user at position k is complete
Packaged(k) == \E f \in Written : f.name = NameFor(usernames[k]) /\ f.complete

\* C19: the users are packaged in the order of the request: the file of the
\* user at a position is created only when the archives of all the earlier
\* positions are completely written, every archive the call has written
\* belongs to a position up to the current one, and only the current one can
\* be incomplete; so when package fails at the k-th user the call has written
\* no archive for a user who is only at later positions, and a file of that
\* name in the output directory is one that was there before the call
C19_RequestOrder ==
    /\ [][(pc = "archive_create" /\ pc' = "archive_write")
            => /\ \A k \in 1..(ui - 1) : Packaged(k)
               /\ \A f \in Written : f.complete]_vars
    /\ [](pc \in {"user", "user_mkdir", "user_cert", "user_key", "archive_create",
                  "archive_write"} =>
            /\ \A f \in Written : \E k \in 1..ui : k <= Len(usernames) /\ f.name = NameFor(usernames[k])
            /\ \A f \in Written :
                ~f.complete => ui <= Len(usernames) /\ f.name = NameFor(usernames[ui])
            /\ \A k \in 1..(ui - 1) : Packaged(k))
    /\ []((Returned /\ ~result.ok /\ temp_dir # 0 /\ ui <= Len(usernames)) =>
            \A j \in (ui + 1)..Len(usernames) :
                (\A k \in 1..ui : usernames[k] # usernames[j]) =>
                    /\ ~\E f \in Written : f.name = NameFor(usernames[j])
                    /\ \A f \in out_dir : f.name = NameFor(usernames[j]) => f \in out_before)

\* the write of the first archive failed; nothing was written for the second
\* user
C19_Witness ==
    /\ Returned
    /\ usernames = <<"b", "a">>
    /\ result = Err("failed while writing archive", "b")
    /\ ui = 1
    /\ {f.name : f \in Written} = {NameFor("b")}

\* ---- the invocations of the PKI tool ----
\* the tool was run for the first n requested usernames, in the order of the
\* request, once each, with the verb v
OncePerUser(v, n) ==
    /\ n <= Len(usernames)
    /\ \A i \in 1..n : tool_log[i].verb = v /\ tool_log[i].username = usernames[i]

HandlerReturned == pc \in {"done", "post", "exit"}

\* C21: new_user runs build-client-full, and remove_user runs revoke, once for
\* each requested username in the order of the request; only the last
\* invocation made can have failed, and then the handler has returned its
\* error, so nothing was run for the usernames after it; gen-crl is run at most
\* once, after a successful revoke of every requested username, and only when
\* update_crl is set; a handler that returns Ok has run everything
C21_FailFast ==
    /\ \A i \in 1..(Len(tool_log) - 1) : tool_log[i].ok
    /\ (tool_log # <<>> /\ ~tool_log[Len(tool_log)].ok) => HandlerReturned /\ ~result.ok
    /\ action = "User::New" =>
            /\ OncePerUser("build-client-full", Len(tool_log))
            /\ (HandlerReturned /\ result.ok) => Len(tool_log) = Len(usernames)
    /\ action = "User::Rm" =>
            LET revokes == {i \in 1..Len(tool_log) : tool_log[i].verb = "revoke"}
                crls    == {i \in 1..Len(tool_log) : tool_log[i].verb = "gen-crl"}
            IN  /\ revokes \cup crls = 1..Len(tool_log)
                /\ revokes = 1..Cardinality(revokes)
                /\ OncePerUser("revoke", Cardinality(revokes))
                /\ crls # {} =>
                        /\ update_crl
                        /\ crls = {Len(usernames) + 1}
                        /\ \A i \in revokes : tool_log[i].ok
                /\ (HandlerReturned /\ result.ok) =>
                        /\ Cardinality(revokes) = Len(usernames)
                        /\ (crls # {}) <=> update_crl
    /\ action \notin {"User::New", "User::Rm"} => tool_log = <<>>

\* the second of two revokes failed although the CRL was to be updated:
\* gen-crl was not run
C21_Witness ==
    /\ action = "User::Rm"
    /\ update_crl
    /\ pc = "exit"
    /\ usernames = <<"a", "b">>
    /\ tool_log = <<Invocation("revoke", "a", TRUE), Invocation("revoke", "b", FALSE)>>

\* ---- the transformed skeleton ----
UserLoop == {"user", "user_mkdir", "user_cert", "user_key", "archive_create", "archive_write"}

\* the files of the transformed skeleton copy in the workspace
SkelCopy == {f \in Workspace.files : Under(mapped_skel_dir, f.path)}

\* what the skeleton is after all the transform scripts
Transformed == {File(<<"a.txt">>, "hi" \o Appended(packaging.skel_map_scripts))}

\* C22: no step of the per-user loop changes the transformed skeleton copy
\* while the workspace is there, and the directory of every user, whatever the
\* position and the subpaths, starts as a copy of the skeleton as the transform
\* scripts left it
C22_CommonAncestor ==
    /\ [][(pc \in UserLoop /\ temp_dir \in DOMAIN tmp_root')
            => {f \in tmp_root'[temp_dir].files : Under(mapped_skel_dir, f.path)} = SkelCopy]_vars
    /\ [](pc = "user_mkdir" =>
            ZipEntries(Workspace, pkg_dir(usernames[ui])) = Transformed)

\* ---- the inputs of package ----
\* C23: no step of package changes the skeleton directory or the PKI
\* directory: neither the scan, nor the copy of the skeleton, nor a transform
\* script, which runs in the copy, nor any step of the per-user loop
C23_InputsUntouched ==
    [][Step => /\ skel' = skel
               /\ issued' = issued
               /\ private' = private]_vars

\* ---- post-action scripts and the action ----
\* C24: a post-action script runs only when the selected action has returned
\* Ok and the no-post-action-scripts flag is not set, and from then on the
\* action changes nothing any more; when the action returned an error, or main
\* returned before it, or the flag is set, main exits without having run a
\* script, and the action's error is main's
C24_OnlyAfterSuccess ==
    /\ [](post_ran # <<>> =>
            /\ pc \in {"post", "exit"}
            /\ result = Ok
            /\ ~no_post_action_scripts)
    /\ []((pc = "exit" /\ (~result.ok \/ no_post_action_scripts)) => post_ran = <<>>)
    /\ []((pc = "exit" /\ result # Running /\ ~result.ok) => exit = result)
    /\ [][post_ran' # post_ran =>
            /\ pc = "post"
            /\ result = Ok
            /\ ~no_post_action_scripts]_vars
    /\ [][pc = "post" =>
            /\ fs' = fs
            /\ skel' = skel
            /\ tool_log' = tool_log
            /\ result' = result]_vars

\* a revoke failed and remove_user returned its error: of the scripts
\* configured for user-rm, which the flag does not hold back, none has run
C24_Witness ==
    /\ pc = "exit"
    /\ action = "User::Rm"
    /\ result = Err("user deletion command failed", "a")
    /\ exit = result
    /\ ~no_post_action_scripts
    /\ Len(Configured) = 2
    /\ post_ran = <<>>
====
